---- MODULE Spec2Model ----
(***************************************************************************)
(* The cart engine of the shopping-cart service (CartService in            *)
(* src/src/services/cart.service.ts) as a state machine.                   *)
(*                                                                         *)
(* Numbers.  A JavaScript number is kept as its decimal literal in fixed    *)
(* point: the number x is the integer x * Scale (thousandths), so 2.5 is   *)
(* 2500, the quantity 1.5 is 1500 and the productId 1 is 1000.  The        *)
(* arithmetic of calculateTotal is done as the code does it, on IEEE-754   *)
(* doubles: a double is a decimal together with its distance from that     *)
(* decimal, a multiple of a power of two, and every product and sum is     *)
(* rounded to the nearest double of its own binary exponent, ties to even. *)
(* NaN is a number of its own that every comparison answers false for.     *)
(*                                                                         *)
(* Objects.  Line items are objects: the cart holds references to them and *)
(* a response holds a shallow copy of the list, i.e. the same references.  *)
(* heap maps a reference to the fields of the object, cart is the list of  *)
(* references this.cart.items.                                             *)
(***************************************************************************)
EXTENDS Integers, Sequences, FiniteSets, TLC

(***************************************************************************)
(* Bounds of the model.                                                    *)
(***************************************************************************)
\* largest quantity (in whole units) a line item may reach by increments
MaxQty == 2
\* number of object references available to the allocator
MaxObjects == 4
\* number of HTTP requests that may be in flight at once
MaxRequests == 2
\* largest magnitude (in whole units) of a price or a quantity given to
\* addItem or updateItem: every total of MaxObjects items then lies within
\* the integers of the model checker, which end at 2^31 - 1
MaxNumber == 60

(***************************************************************************)
(* Program constants.                                                      *)
(***************************************************************************)
\* the 100 of Math.round(total * 100) / 100
CentsPerUnit == 100
\* statusCode of ValidationError and BadRequestError
StatusBadRequest == 400
\* statusCode of NotFoundError
StatusNotFound == 404
StatusOk == 200
StatusCreated == 201
StatusInternalError == 500

\* fixed-point unit: tenths of a cent
Scale == 10 * CentsPerUnit

(***************************************************************************)
(* JavaScript values as the engine's inputs carry them.                    *)
(***************************************************************************)
Undefined == [t |-> "undefined", n |-> 0, s |-> <<>>]
Num(x) == [t |-> "number", n |-> x, s |-> <<>>]
Str(cs) == [t |-> "string", n |-> 0, s |-> cs]

\* the number NaN: a value outside the decimals of the model that is equal
\* to no number, itself included, and in no order with any
NaN == -(2 ^ 30)

\* typeof v
typeof(v) == v.t

\* !v : undefined, 0, NaN and "" are falsy
Not(v) ==
    \/ v.t = "undefined"
    \/ v.t = "number" /\ v.n \in {0, NaN}
    \/ v.t = "string" /\ v.s = <<>>

\* x < y, x <= y and x === y for numbers x and y
Less(x, y) == x # NaN /\ y # NaN /\ x < y
LessEq(x, y) == x # NaN /\ y # NaN /\ x <= y
StrictEq(x, y) == x # NaN /\ y # NaN /\ x = y

\* the digits after the decimal point of the fraction f / unit, 0 <= f < unit
RECURSIVE FractionText(_, _)
FractionText(f, unit) ==
    IF f = 0 THEN ""
    ELSE ToString((10 * f) \div unit) \o FractionText((10 * f) % unit, unit)

\* `${x}` for a number x >= 0
PositiveText(x) ==
    IF x % Scale = 0 THEN ToString(x \div Scale)
    ELSE ToString(x \div Scale) \o "." \o FractionText(x % Scale, Scale)

\* `${x}` for a number x: its decimal text
NumberText(x) ==
    IF x = NaN THEN "NaN"
    ELSE IF x < 0 THEN "-" \o PositiveText(-x)
    ELSE PositiveText(x)

\* Number.isInteger(x) for a number x
IsInteger(x) == x # NaN /\ x % Scale = 0

\* the characters String.prototype.trim strips: WhiteSpace and
\* LineTerminator of ECMAScript.  A string is the sequence of its characters;
\* a character that has no escape in a string literal is written as its
\* code point
WhiteSpace ==
    {" ", "\t", "\n", "\r", "\f", "U+000B", "U+00A0", "U+FEFF", "U+1680",
     "U+2000", "U+2001", "U+2002", "U+2003", "U+2004", "U+2005", "U+2006",
     "U+2007", "U+2008", "U+2009", "U+200A", "U+2028", "U+2029", "U+202F",
     "U+205F", "U+3000"}

RECURSIVE TrimStart(_)
TrimStart(cs) ==
    IF cs = <<>> THEN cs
    ELSE IF Head(cs) \in WhiteSpace THEN TrimStart(Tail(cs))
    ELSE cs

RECURSIVE TrimEnd(_)
TrimEnd(cs) ==
    IF cs = <<>> THEN cs
    ELSE IF cs[Len(cs)] \in WhiteSpace THEN TrimEnd(SubSeq(cs, 1, Len(cs) - 1))
    ELSE cs

\* String.prototype.trim
trim(cs) == TrimEnd(TrimStart(cs))

(***************************************************************************)
(* IEEE-754 binary64 arithmetic.  Real(d, e, p, f, q) is the real number   *)
(*     (d + e / 2^p + f / 2^q) / Scale                                     *)
(* d is a decimal in fixed point and the two dyadic fractions are the      *)
(* (tiny, below 1) distance of the number from it; p <= q.  The exact      *)
(* result of an operation is such a real, and Double(d, e, p) is what it   *)
(* is rounded to: a multiple of 2^-p whose binade has the spacing 2^-p (or *)
(* twice that, after a carry).  Every double the decimals of the model     *)
(* lead to is represented exactly.                                         *)
(***************************************************************************)
\* bits of a double's mantissa after the leading one
MantissaBits == 52

Real(d, e, p, f, q) ==
    IF p <= q THEN [d |-> d, e |-> e, p |-> p, f |-> f, q |-> q]
    ELSE [d |-> d, e |-> f, p |-> q, f |-> e, q |-> p]

Double(d, e, p) == [d |-> d, e |-> e, p |-> p]

\* the double NaN
NaNDouble == Double(NaN, 0, 0)

\* 2^k modulo md, for md * md below 2^31
RECURSIVE Pow2Mod(_, _)
Pow2Mod(k, md) ==
    IF k <= 30 THEN (2 ^ k) % md
    ELSE (Pow2Mod(k \div 2, md) * Pow2Mod(k - k \div 2, md)) % md

\* floor(e / 2^t), for an e of magnitude below 2^31
FloorShift(e, t) ==
    IF e = 0 THEN 0
    ELSE IF t < 0 THEN e * (2 ^ (-t))
    ELSE IF t > 30 THEN (IF e > 0 THEN 0 ELSE -1)
    ELSE e \div (2 ^ t)

\* e / 2^t is an integer, for an e of magnitude below 2^31
WholeShift(e, t) ==
    \/ e = 0
    \/ t <= 0
    \/ t <= 30 /\ e % (2 ^ t) = 0

\* floor((e / 2^p + f / 2^q) * 2^pt): the distance of the real x from its
\* decimal in units of 2^-pt, rounded down
TailFloor(x, pt) ==
    IF x.p >= pt
    THEN FloorShift(x.e + FloorShift(x.f, x.q - x.p), x.p - pt)
    ELSE FloorShift(x.e, x.p - pt) + FloorShift(x.f, x.q - pt)

\* the distance of x from its decimal is a multiple of 2^-pt
TailWhole(x, pt) ==
    IF x.p >= pt
    THEN /\ WholeShift(x.f, x.q - x.p)
         /\ WholeShift(x.e + FloorShift(x.f, x.q - x.p), x.p - pt)
    ELSE WholeShift(x.f, x.q - pt)

\* the largest k with pw * 2^k <= d, for 0 < pw <= d
RECURSIVE ExponentAbove(_, _)
ExponentAbove(d, pw) ==
    IF d - pw >= pw THEN 1 + ExponentAbove(d, 2 * pw) ELSE 0

\* the largest k (below 0) with 2^k * Scale <= m, for 0 < m < Scale
RECURSIVE ExponentBelow(_)
ExponentBelow(m) == IF m >= Scale THEN 0 ELSE ExponentBelow(2 * m) - 1

\* the binary exponent of the decimal d > 0: 2^k <= d / Scale < 2^(k+1)
DecimalExponent(d) ==
    IF d >= Scale THEN ExponentAbove(d, Scale) ELSE ExponentBelow(d)

\* the binary exponent of a positive real x whose decimal has the exponent
\* k: one less when the decimal is 2^k and x lies below its decimal
ExponentFrom(x, k) ==
    IF /\ IF k >= 0 THEN x.d = Scale * (2 ^ k) ELSE x.d * (2 ^ (-k)) = Scale
       /\ x.e + FloorShift(x.f, x.q - x.p) < 0
    THEN k - 1
    ELSE k

Exponent(x) ==
    CHOOSE j \in {ExponentFrom(x, k) : k \in {DecimalExponent(x.d)}} : TRUE

\* the double of binary exponent k nearest to a positive real x, a tie going
\* to the even mantissa: x * 2^pt is rounded to a whole number m, and n2 is
\* x * 2^pt * Scale rounded down, modulo 2 * Scale
RoundWithin(x, k) ==
    LET pt == MantissaBits - k
        fl == TailFloor(x, pt)
        n2 == ((x.d % (2 * Scale)) * Pow2Mod(pt, 2 * Scale) + fl) % (2 * Scale)
        r == n2 % Scale
        up == \/ 2 * r > Scale
              \/ 2 * r = Scale /\ (~TailWhole(x, pt) \/ n2 >= Scale)
    IN  Double(x.d, fl - r + (IF up THEN Scale ELSE 0), pt)

\* the double nearest to a positive real x; its exponent is computed once
RoundPositive(x) ==
    CHOOSE y \in {RoundWithin(x, k) : k \in {Exponent(x)}} : TRUE

\* the double nearest to the real x (round to nearest, ties to even)
RoundToDouble(x) ==
    IF x.d = 0 /\ x.e = 0 /\ x.f = 0 THEN Double(0, 0, 0)
    ELSE IF x.d < 0
    THEN LET y == RoundPositive(Real(-x.d, -x.e, x.p, -x.f, x.q))
         IN  Double(-y.d, -y.e, y.p)
    ELSE RoundPositive(x)

\* the double a number literal denotes
ToDouble(n) ==
    IF n = NaN THEN NaNDouble ELSE RoundToDouble(Real(n, 0, 0, 0, 0))

\* n * m / Scale without overflow (exact when m is a whole number)
Times(n, m) == n * (m \div Scale) + (n * (m % Scale)) \div Scale

\* x * n for a double x and a number n (exact before rounding when n is a
\* whole number, as every quantity of the cart and the factor 100 are); the
\* operand is a value v, computed once
FMul(x, n) ==
    CHOOSE z \in {IF v.d = NaN \/ n = NaN THEN NaNDouble
                  ELSE RoundToDouble(Real(Times(v.d, n), Times(v.e, n), v.p,
                                          0, v.p)) : v \in {x}} : TRUE

\* x + y for doubles x and y; the operands are values v and w, computed once
FAdd(x, y) ==
    CHOOSE z \in {IF v.d = NaN \/ w.d = NaN THEN NaNDouble
                  ELSE RoundToDouble(Real(v.d + w.d, v.e, v.p, w.e, w.p)) :
                     v \in {x}, w \in {y}} : TRUE

\* Math.round of a double: the nearest integer, a tie going to the larger;
\* the operand is a value v, computed once
MathRound(x) ==
    CHOOSE n \in {IF v.d = NaN THEN NaN
                  ELSE IF (v.d + Scale \div 2) % Scale = 0 /\ v.e < 0
                  THEN (v.d + Scale \div 2) \div Scale - 1
                  ELSE (v.d + Scale \div 2) \div Scale : v \in {x}} : TRUE

(***************************************************************************)
(* State.                                                                  *)
(***************************************************************************)
VARIABLES
    cart,   \* this.cart.items : sequence of references to line-item objects
    heap,   \* reference -> [productId, name, price, quantity]
    call,   \* the last call made to the engine, with its arguments
    ret,    \* what that call returned or threw
    firstAdded, \* history: the productIds in the order of their first
                \* successful addItem (recorded under SpecOrder only)
    issued,     \* history: the orderIds that checkout has returned
                \* (recorded under SpecCheckout only)
    held,       \* a response that the caller keeps a reference to after
                \* later calls (kept under SpecHeld only)
    http,       \* request -> where the request is in the HTTP layer, what
                \* its controller holds and what was sent (SpecHttp only)
    past,       \* history: the cart before the last call, and the line
                \* items that removeItem has taken out (SpecPairs only)
    since       \* history: whether an addItem has succeeded, and which
                \* objects it has pushed, since the cart was last emptied by
                \* a successful checkout or clearCart (SpecHttp only)

vars ==
    <<cart, heap, call, ret, firstAdded, issued, held, http, past, since>>

Requests == 1 .. MaxRequests

Addr == 1 .. MaxObjects

Range(f) == {f[i] : i \in DOMAIN f}

\* the line items a list of references denotes
Deref(refs, h) == [i \in 1 .. Len(refs) |-> h[refs[i]]]

\* the line items of the cart, in order
Items == Deref(cart, heap)

(***************************************************************************)
(* Private helpers of CartService.                                         *)
(***************************************************************************)
\* mutant of ReduceTotal: the prices are summed, the quantities left out
RECURSIVE ReduceTotalUnitPrices(_, _, _)
ReduceTotalUnitPrices(c, h, k) ==
    IF k = 0 THEN Double(0, 0, 0)
    ELSE FAdd(ReduceTotalUnitPrices(c, h, k - 1), ToDouble(h[c[k]].price))

\* reduce((sum, item) => sum + item.price * item.quantity, 0) over the first
\* k items, in double arithmetic
RECURSIVE ReduceTotal(_, _, _)
ReduceTotal(c, h, k) ==
    IF k = 0 THEN Double(0, 0, 0)
    ELSE FAdd(ReduceTotal(c, h, k - 1),
              FMul(ToDouble(h[c[k]].price), h[c[k]].quantity))

\* Math.round(total * 100) / 100; the quotient is the double nearest to the
\* decimal cents / 100, kept as that decimal
calculateTotal(c, h) ==
    CHOOSE total \in
        {IF cents = NaN THEN NaN ELSE (cents * Scale) \div CentsPerUnit :
            cents \in {MathRound(FMul(ReduceTotal(c, h, Len(c)),
                                      CentsPerUnit * Scale))}} : TRUE

\* reduce((count, item) => count + item.quantity, 0) over the first k items
RECURSIVE ReduceCount(_, _, _)
ReduceCount(c, h, k) ==
    IF k = 0 THEN 0
    ELSE ReduceCount(c, h, k - 1) + h[c[k]].quantity

calculateItemCount(c, h) == ReduceCount(c, h, Len(c))

\* mutant of findItemIndex: only the first item is compared
findItemIndexFirstOnly(c, h, productId) ==
    IF Len(c) >= 1 /\ StrictEq(h[c[1]].productId, productId) THEN 1 ELSE -1

\* mutant of findItemIndex: the last index when no item matches
findItemIndexOrLast(c, h, productId) ==
    IF \E i \in 1 .. Len(c) : StrictEq(h[c[i]].productId, productId)
    THEN CHOOSE i \in 1 .. Len(c) :
            /\ StrictEq(h[c[i]].productId, productId)
            /\ \A j \in 1 .. (i - 1) : ~StrictEq(h[c[j]].productId, productId)
    ELSE Len(c)

\* items.findIndex(item => item.productId === productId), 1-based; -1 when
\* no item matches
findItemIndex(c, h, productId) ==
    IF \E i \in 1 .. Len(c) : StrictEq(h[c[i]].productId, productId)
    THEN CHOOSE i \in 1 .. Len(c) :
            /\ StrictEq(h[c[i]].productId, productId)
            /\ \A j \in 1 .. (i - 1) : ~StrictEq(h[c[j]].productId, productId)
    ELSE -1

\* mutant of validateAddItemInput: the price is not checked
validateAddItemInputNoPrice(input) ==
    IF Not(input.productId) \/ typeof(input.productId) # "number"
    THEN "productId is required and must be a number"
    ELSE IF \/ Not(input.name)
            \/ typeof(input.name) # "string"
            \/ trim(input.name.s) = <<>>
    THEN "name is required and must be a non-empty string"
    ELSE IF \/ typeof(input.quantity) # "number"
            \/ Less(input.quantity.n, 1 * Scale)
            \/ ~IsInteger(input.quantity.n)
    THEN "quantity must be at least 1 and must be an integer"
    ELSE ""

\* the message validateAddItemInput throws, "" when it returns normally
validateAddItemInput(input) ==
    IF Not(input.productId) \/ typeof(input.productId) # "number"
    THEN "productId is required and must be a number"
    ELSE IF \/ Not(input.name)
            \/ typeof(input.name) # "string"
            \/ trim(input.name.s) = <<>>
    THEN "name is required and must be a non-empty string"
    ELSE IF typeof(input.price) # "number" \/ LessEq(input.price.n, 0)
    THEN "price must be greater than 0"
    ELSE IF \/ typeof(input.quantity) # "number"
            \/ Less(input.quantity.n, 1 * Scale)
            \/ ~IsInteger(input.quantity.n)
    THEN "quantity must be at least 1 and must be an integer"
    ELSE ""

\* mutant of validateUpdateInput: Number.isInteger is not called
validateUpdateInputNoInteger(updates) ==
    IF updates.quantity = Undefined /\ updates.price = Undefined
    THEN "At least one field (quantity or price) must be provided"
    ELSE IF /\ updates.quantity # Undefined
            /\ \/ typeof(updates.quantity) # "number"
               \/ Less(updates.quantity.n, 1 * Scale)
    THEN "quantity must be at least 1 and must be an integer"
    ELSE IF /\ updates.price # Undefined
            /\ (typeof(updates.price) # "number" \/ LessEq(updates.price.n, 0))
    THEN "price must be greater than 0"
    ELSE ""

\* the message validateUpdateInput throws, "" when it returns normally
validateUpdateInput(updates) ==
    IF updates.quantity = Undefined /\ updates.price = Undefined
    THEN "At least one field (quantity or price) must be provided"
    ELSE IF /\ updates.quantity # Undefined
            /\ \/ typeof(updates.quantity) # "number"
               \/ Less(updates.quantity.n, 1 * Scale)
               \/ ~IsInteger(updates.quantity.n)
    THEN "quantity must be at least 1 and must be an integer"
    ELSE IF /\ updates.price # Undefined
            /\ (typeof(updates.price) # "number" \/ LessEq(updates.price.n, 0))
    THEN "price must be greater than 0"
    ELSE ""

(***************************************************************************)
(* Responses.                                                              *)
(***************************************************************************)
\* a response that is no order summary has no orderId and no checkoutTime
NoOrderId == <<>>
NoTime == <<>>

\* CartResponse: { items: [...this.cart.items], total, itemCount }
CartResponse(c, h) ==
    [kind |-> "cart", items |-> c, total |-> calculateTotal(c, h),
     itemCount |-> calculateItemCount(c, h),
     error |-> "", statusCode |-> 0, message |-> "",
     orderId |-> NoOrderId, checkoutTime |-> NoTime]

\* mutant of OrderId: the random suffix is left out
OrderIdOfTime(now, suffix) == <<"ORD", now, <<>>>>

\* `ORD-${Date.now()}-${uuidv4().slice(0, 8)}`: the text is kept as its three
\* parts (the decimal digits of now have no "-" and the suffix has 8
\* characters, so two texts are equal exactly when their parts are)
OrderId(now, suffix) == <<"ORD", now, suffix>>

\* new Date().toISOString() at the clock reading time
ToISOString(time) == <<"ISO-8601", time>>

\* CheckoutResponse: the order summary
CheckoutResponse(c, h, now, suffix, time) ==
    [kind |-> "order", items |-> c, total |-> calculateTotal(c, h),
     itemCount |-> calculateItemCount(c, h),
     error |-> "", statusCode |-> 0, message |-> "",
     orderId |-> OrderId(now, suffix), checkoutTime |-> ToISOString(time)]

\* a thrown AppError
Thrown(name, status, msg) ==
    [kind |-> "error", items |-> <<>>, total |-> 0, itemCount |-> 0,
     error |-> name, statusCode |-> status, message |-> msg,
     orderId |-> NoOrderId, checkoutTime |-> NoTime]

ValidationError(msg) == Thrown("ValidationError", StatusBadRequest, msg)
NotFoundError(msg) == Thrown("NotFoundError", StatusNotFound, msg)

\* `Item with productId ${productId} not found in cart`
NotFoundMessage(productId) ==
    "Item with productId " \o NumberText(productId) \o " not found in cart"
BadRequestError(msg) == Thrown("BadRequestError", StatusBadRequest, msg)

NoReturn ==
    [kind |-> "none", items |-> <<>>, total |-> 0, itemCount |-> 0,
     error |-> "", statusCode |-> 0, message |-> "",
     orderId |-> NoOrderId, checkoutTime |-> NoTime]

\* the record of a call and its arguments
Call(op, productId, name, price, quantity) ==
    [op |-> op, productId |-> productId, name |-> name, price |-> price,
     quantity |-> quantity]

NoCall == Call("none", Undefined, Undefined, Undefined, Undefined)

(***************************************************************************)
(* HTTP requests and responses.                                            *)
(***************************************************************************)
\* a response without a message, data or error field ("" for a message that
\* is left out: no message of the service is empty)
NoMessage == ""
NoData ==
    [items |-> <<>>, total |-> 0, itemCount |-> 0,
     orderId |-> NoOrderId, checkoutTime |-> NoTime]
NoError == [message |-> "", statusCode |-> 0]

\* no response sent yet
NoResponse ==
    [status |-> 0, success |-> FALSE, message |-> NoMessage,
     data |-> NoData, error |-> NoError]

\* no request body
NoBody ==
    [parsed |-> TRUE, productId |-> Undefined, name |-> Undefined,
     price |-> Undefined, quantity |-> Undefined]

\* what the engine answered to a controller: nothing yet
NoOutcome ==
    [kind |-> "none", error |-> "", statusCode |-> 0, message |-> "",
     data |-> NoData]

\* a request slot that no request has used; successes and failures count the
\* success and the error responses sent to the request
NoRequest ==
    [state |-> "idle", route |-> "none", param |-> <<>>, body |-> NoBody,
     result |-> NoReturn, outcome |-> NoOutcome, response |-> NoResponse,
     successes |-> 0, failures |-> 0, turn |-> 0]

\* no call made yet: an empty cart before it, no call before it, nothing
\* removed
NoPast ==
    [cart |-> <<>>, items |-> <<>>, call |-> NoCall, succeeded |-> FALSE,
     priorCart |-> <<>>, priorItems |-> <<>>, removed |-> {}]

\* nothing has been added since the cart was last emptied
NothingSince == [added |-> FALSE, pushed |-> {}]

(***************************************************************************)
(* Object store.                                                           *)
(***************************************************************************)
\* the references in use: those of the items of the cart c, of the items
\* listed in the response the caller keeps and of those listed in the value
\* a controller holds (the previous response is dropped when the next call
\* is made)
Live(c) ==
    Range(c) \cup Range(held.items)
        \cup UNION {Range(http[r].result.items) : r \in Requests}

\* the reference a new object gets: the least one not in use
NewRef(c) == CHOOSE a \in Addr \ Live(c) : \A b \in Addr \ Live(c) : a <= b

\* the objects still referenced from the cart c, the response r or the
\* response the caller keeps; the rest is garbage
Collect(h, c, r) == [a \in (Live(c) \cup Range(r.items)) |-> h[a]]

\* h with the new object item stored at reference a
Store(h, a, item) ==
    [b \in (DOMAIN h) \cup {a} |-> IF b = a THEN item ELSE h[b]]

(***************************************************************************)
(* Public operations of CartService.  Each action is one call, run to      *)
(* completion; it records the call and what it returned or threw.          *)
(***************************************************************************)
Init ==
    /\ cart = <<>>
    /\ heap = <<>>
    /\ call = NoCall
    /\ ret = NoReturn
    /\ firstAdded = <<>>
    /\ issued = {}
    /\ held = NoReturn
    /\ http = [r \in Requests |-> NoRequest]
    /\ since = NothingSince
    /\ past = NoPast

\* mutant of getCart: the items are handed over, the cart is left empty
getCartTakesItems ==
    /\ call' = Call("getCart", Undefined, Undefined, Undefined, Undefined)
    /\ ret' = CartResponse(cart, heap)
    /\ cart' = <<>>
    /\ heap' = Collect(heap, cart', ret')

getCart ==
    /\ call' = Call("getCart", Undefined, Undefined, Undefined, Undefined)
    /\ ret' = CartResponse(cart, heap)
    /\ cart' = cart
    /\ heap' = Collect(heap, cart', ret')

\* mutant of NewItem: the name is stored as given
NewItemUntrimmed(input) ==
    [productId |-> input.productId.n, name |-> input.name.s,
     price |-> input.price.n, quantity |-> input.quantity.n]

\* the CartItem addItem builds for a product that is not in the cart
NewItem(input) ==
    [productId |-> input.productId.n, name |-> trim(input.name.s),
     price |-> input.price.n, quantity |-> input.quantity.n]

\* mutant of Increment: the quantity is assigned, not added
IncrementAssigns(h, a, input) ==
    [h EXCEPT ![a].quantity = input.quantity.n]

\* this.cart.items[existingIndex].quantity += input.quantity
Increment(h, a, input) ==
    [h EXCEPT ![a].quantity = @ + input.quantity.n]

\* mutant of addItem: a new item is put at the head of the list (unshift)
addItemPrepends(input) ==
    LET msg == validateAddItemInput(input)
        existingIndex == findItemIndex(cart, heap, input.productId.n)
    IN  /\ \A v \in {input.price, input.quantity} :
                v.t = "number" /\ v.n # NaN
                    => v.n \in -(MaxNumber * Scale) .. MaxNumber * Scale
        /\ call' = Call("addItem", input.productId, input.name, input.price,
                        input.quantity)
        /\ IF msg # ""
           THEN /\ ret' = ValidationError(msg)
                /\ cart' = cart
                /\ heap' = Collect(heap, cart', ret')
           ELSE IF existingIndex >= 1
           THEN LET a == cart[existingIndex]
                    h == Increment(heap, a, input)
                IN  /\ h[a].quantity <= MaxQty * Scale
                    /\ cart' = cart
                    /\ ret' = CartResponse(cart', h)
                    /\ heap' = Collect(h, cart', ret')
           ELSE /\ Addr \ Live(cart) # {}
                /\ LET a == NewRef(cart)
                       h == Store(heap, a, NewItem(input))
                   IN  /\ cart' = <<a>> \o cart
                       /\ ret' = CartResponse(cart', h)
                       /\ heap' = Collect(h, cart', ret')

addItem(input) ==
    LET msg == validateAddItemInput(input)
        existingIndex == findItemIndex(cart, heap, input.productId.n)
    IN  /\ \A v \in {input.price, input.quantity} :
                v.t = "number" /\ v.n # NaN
                    => v.n \in -(MaxNumber * Scale) .. MaxNumber * Scale
        /\ call' = Call("addItem", input.productId, input.name, input.price,
                        input.quantity)
        /\ IF msg # ""
           THEN /\ ret' = ValidationError(msg)
                /\ cart' = cart
                /\ heap' = Collect(heap, cart', ret')
           ELSE IF existingIndex >= 1
           THEN LET a == cart[existingIndex]
                    h == Increment(heap, a, input)
                IN  /\ h[a].quantity <= MaxQty * Scale
                    /\ cart' = cart
                    /\ ret' = CartResponse(cart', h)
                    /\ heap' = Collect(h, cart', ret')
           ELSE /\ Addr \ Live(cart) # {}
                /\ LET a == NewRef(cart)
                       h == Store(heap, a, NewItem(input))
                   IN  /\ cart' = Append(cart, a)
                       /\ ret' = CartResponse(cart', h)
                       /\ heap' = Collect(h, cart', ret')

\* mutant of ApplyUpdates: the quantity is added to the item's quantity
ApplyUpdatesIncrements(h, a, updates) ==
    LET h1 == IF updates.quantity # Undefined
              THEN [h EXCEPT ![a].quantity = @ + updates.quantity.n]
              ELSE h
    IN  IF updates.price # Undefined
        THEN [h1 EXCEPT ![a].price = updates.price.n]
        ELSE h1

\* the assignments of updateItem to the item at reference a
ApplyUpdates(h, a, updates) ==
    LET h1 == IF updates.quantity # Undefined
              THEN [h EXCEPT ![a].quantity = updates.quantity.n]
              ELSE h
    IN  IF updates.price # Undefined
        THEN [h1 EXCEPT ![a].price = updates.price.n]
        ELSE h1

updateItem(productId, updates) ==
    LET msg == validateUpdateInput(updates)
        index == findItemIndex(cart, heap, productId)
    IN  /\ \A v \in {updates.price, updates.quantity} :
                v.t = "number" /\ v.n # NaN
                    => v.n \in -(MaxNumber * Scale) .. MaxNumber * Scale
        /\ call' = Call("updateItem", Num(productId), Undefined, updates.price,
                        updates.quantity)
        /\ cart' = cart
        /\ IF msg # ""
           THEN /\ ret' = ValidationError(msg)
                /\ heap' = Collect(heap, cart', ret')
           ELSE IF index < 1
           THEN /\ ret' = NotFoundError(NotFoundMessage(productId))
                /\ heap' = Collect(heap, cart', ret')
           ELSE LET h == ApplyUpdates(heap, cart[index], updates)
                IN  /\ ret' = CartResponse(cart', h)
                    /\ heap' = Collect(h, cart', ret')

\* mutant of Splice: the last element is moved to the place of the removed
\* one
SpliceMovesLast(c, index) ==
    IF index = Len(c) THEN SubSeq(c, 1, Len(c) - 1)
    ELSE SubSeq([c EXCEPT ![index] = c[Len(c)]], 1, Len(c) - 1)

\* items.splice(index, 1)
Splice(c, index) == SubSeq(c, 1, index - 1) \o SubSeq(c, index + 1, Len(c))

removeItem(productId) ==
    LET index == findItemIndex(cart, heap, productId)
    IN  /\ call' = Call("removeItem", Num(productId), Undefined, Undefined,
                        Undefined)
        /\ IF index < 1
           THEN /\ ret' = NotFoundError(NotFoundMessage(productId))
                /\ cart' = cart
                /\ heap' = Collect(heap, cart', ret')
           ELSE /\ cart' = Splice(cart, index)
                /\ ret' = CartResponse(cart', heap)
                /\ heap' = Collect(heap, cart', ret')

\* mutant of clearCart: only the last item is dropped
clearCartDropsLast ==
    /\ call' = Call("clearCart", Undefined, Undefined, Undefined, Undefined)
    /\ cart' = SubSeq(cart, 1, Len(cart) - 1)
    /\ ret' = CartResponse(cart', heap)
    /\ heap' = Collect(heap, cart', ret')

clearCart ==
    /\ call' = Call("clearCart", Undefined, Undefined, Undefined, Undefined)
    /\ cart' = <<>>
    /\ ret' = CartResponse(cart', heap)
    /\ heap' = Collect(heap, cart', ret')

\* reset(): the cart is replaced by a new empty one; nothing is returned
reset ==
    /\ call' = Call("reset", Undefined, Undefined, Undefined, Undefined)
    /\ cart' = <<>>
    /\ ret' = NoReturn
    /\ heap' = Collect(heap, cart', ret')

\* mutant of checkout: the cart is not emptied
checkoutKeepsCart(now, suffix, time) ==
    /\ call' = Call("checkout", Undefined, Undefined, Undefined, Undefined)
    /\ IF Len(cart) = 0
       THEN /\ ret' = BadRequestError("Cannot checkout with an empty cart")
            /\ cart' = cart
            /\ heap' = Collect(heap, cart', ret')
       ELSE /\ ret' = CheckoutResponse(cart, heap, now, suffix, time)
            /\ cart' = cart
            /\ heap' = Collect(heap, cart', ret')

\* mutant of checkout: the cart is emptied before the summary is built
checkoutClearsFirst(now, suffix, time) ==
    /\ call' = Call("checkout", Undefined, Undefined, Undefined, Undefined)
    /\ IF Len(cart) = 0
       THEN /\ ret' = BadRequestError("Cannot checkout with an empty cart")
            /\ cart' = cart
            /\ heap' = Collect(heap, cart', ret')
       ELSE /\ cart' = <<>>
            /\ ret' = CheckoutResponse(cart', heap, now, suffix, time)
            /\ heap' = Collect(heap, cart', ret')

\* mutant of checkout: the empty cart is not refused
checkoutUnguarded(now, suffix, time) ==
    /\ call' = Call("checkout", Undefined, Undefined, Undefined, Undefined)
    /\ ret' = CheckoutResponse(cart, heap, now, suffix, time)
    /\ cart' = <<>>
    /\ heap' = Collect(heap, cart', ret')

checkout(now, suffix, time) ==
    /\ call' = Call("checkout", Undefined, Undefined, Undefined, Undefined)
    /\ IF Len(cart) = 0
       THEN /\ ret' = BadRequestError("Cannot checkout with an empty cart")
            /\ cart' = cart
            /\ heap' = Collect(heap, cart', ret')
       ELSE /\ ret' = CheckoutResponse(cart, heap, now, suffix, time)
            /\ cart' = <<>>
            /\ heap' = Collect(heap, cart', ret')

(***************************************************************************)
(* The calls the model makes.                                              *)
(***************************************************************************)
\* names, as sequences of characters
Milk == <<"M", "i", "l", "k">>
\* " \tMilk\n "
PaddedMilk == <<" ", "\t", "M", "i", "l", "k", "\n", " ">>
Bread == <<"B", "r", "e", "a", "d">>
\* " \t\n"
Blank == <<" ", "\t", "\n">>

GoodProductIds == {Num(1 * Scale), Num(2 * Scale)}
BadProductIds == {Undefined, Num(0)}
GoodNames == {Str(PaddedMilk), Str(Bread)}
BadNames == {Undefined, Str(Blank)}
\* 1.005 and 2.5
GoodPrices == {Num(Scale + Scale \div 200), Num((5 * Scale) \div 2)}
BadPrices == {Num(0), Num(-1 * Scale)}
GoodQuantities == {Num(1 * Scale), Num(2 * Scale)}
\* 0, -1 and 1.5
BadQuantities == {Num(0), Num(-1 * Scale), Num((3 * Scale) \div 2)}

AddItemInput(productId, name, price, quantity) ==
    [productId |-> productId, name |-> name, price |-> price,
     quantity |-> quantity]

\* the products the clients of the engine put in the cart: a client sends
\* the same productId with the same name, at any price and quantity
Products == {<<Num(1 * Scale), Str(PaddedMilk)>>, <<Num(2 * Scale), Str(Bread)>>}

ValidAddInputs ==
    {AddItemInput(p[1], p[2], pr, q) :
        p \in Products, pr \in GoodPrices, q \in GoodQuantities}

\* a valid input with one field made invalid
BaseAddInput(p) == AddItemInput(p, Str(Bread), Num((5 * Scale) \div 2), Num(1 * Scale))

InvalidAddInputs ==
    {[BaseAddInput(p) EXCEPT !.productId = v] :
        p \in GoodProductIds, v \in BadProductIds}
    \cup {[BaseAddInput(p) EXCEPT !.name = v] :
        p \in GoodProductIds, v \in BadNames}
    \cup {[BaseAddInput(p) EXCEPT !.price = v] :
        p \in GoodProductIds, v \in BadPrices}
    \cup {[BaseAddInput(p) EXCEPT !.quantity = v] :
        p \in GoodProductIds, v \in BadQuantities}

\* an input whose price is the number NaN
NaNAddInputs ==
    {AddItemInput(p[1], p[2], Num(NaN), Num(1 * Scale)) : p \in Products}

AddInputs == ValidAddInputs \cup InvalidAddInputs \cup NaNAddInputs

\* the productId 999 is never added
AbsentProductId == 999 * Scale

ProductIdArgs == {1 * Scale, 2 * Scale, AbsentProductId}

UpdateItemInput(quantity, price) == [quantity |-> quantity, price |-> price]

UpdateInputs ==
    {UpdateItemInput(q, pr) :
        q \in {Undefined, Num(MaxQty * Scale), Num((3 * Scale) \div 2)},
        pr \in {Undefined, Num(0), Num(Scale + Scale \div 200), Num(NaN)}}
    \cup {UpdateItemInput(q, pr) :
            q \in {Num(0), Num(-1 * Scale)},
            pr \in {Undefined, Num(Scale + Scale \div 200)}}

\* readings of the clock (Date.now(), new Date()), in milliseconds; no order
\* of the readings of two calls is assumed
ClockReadings == {1, 2}

\* the first 8 characters of a version 4 UUID
Suffixes == {<<"1", "b", "9", "d", "6", "b", "c", "d">>,
             <<"6", "e", "c", "0", "b", "d", "7", "f">>}

\* the history is recorded: a successful addItem of a productId that was
\* never added before puts it at the end of firstAdded
Recorded ==
    /\ firstAdded' =
            IF /\ call'.op = "addItem"
               /\ ret'.kind = "cart"
               /\ call'.productId.n \notin Range(firstAdded)
            THEN Append(firstAdded, call'.productId.n)
            ELSE firstAdded
    /\ UNCHANGED <<issued, held, http, past, since>>

\* the orderIds are recorded: a successful checkout adds the orderId it
\* returned to issued
RecordedOrders ==
    /\ issued' =
            IF call'.op = "checkout" /\ ret'.kind = "order"
            THEN issued \cup {ret'.orderId}
            ELSE issued
    /\ UNCHANGED <<firstAdded, held, http, past, since>>

\* the history is not recorded
Unrecorded == UNCHANGED <<firstAdded, issued, held, http, past, since>>

Next ==
    \/ getCart /\ Unrecorded
    \/ \E input \in AddInputs : addItem(input) /\ Unrecorded
    \/ \E productId \in ProductIdArgs, updates \in UpdateInputs :
            updateItem(productId, updates) /\ Unrecorded
    \/ \E productId \in ProductIdArgs : removeItem(productId) /\ Unrecorded
    \/ clearCart /\ Unrecorded
    \/ \E now \in ClockReadings, suffix \in Suffixes, time \in ClockReadings :
            checkout(now, suffix, time) /\ Unrecorded
    \/ reset /\ Unrecorded

Spec == Init /\ [][Next]_vars

(***************************************************************************)
(* A single addItem call on every input, valid or not, from a small set of *)
(* carts: the specification under which the validation rules are checked.  *)
(***************************************************************************)
WideProductIds ==
    GoodProductIds \cup BadProductIds
        \cup {Str(<<"1">>), Num(-1 * Scale), Num((3 * Scale) \div 2), Num(NaN)}
WideNames == GoodNames \cup BadNames \cup {Str(<<>>), Num(1 * Scale)}
\* also the price 0.001, a tenth of a cent, and the price NaN
WidePrices ==
    GoodPrices \cup BadPrices
        \cup {Undefined, Str(<<"2">>), Num(Scale \div 1000), Num(NaN)}
WideQuantities ==
    GoodQuantities \cup BadQuantities
        \cup {Undefined, Num(-1 * Scale), Str(<<"2">>), Num(NaN)}

WideAddInputs ==
    {AddItemInput(p, n, pr, q) :
        p \in WideProductIds, n \in WideNames, pr \in WidePrices,
        q \in WideQuantities}

\* the cart after addItem({productId: 1, name: "Milk", price: 2.5, quantity: 1})
MilkItem ==
    [productId |-> 1 * Scale, name |-> Milk, price |-> (5 * Scale) \div 2,
     quantity |-> 1 * Scale]

InitValidate ==
    /\ call = NoCall
    /\ ret = NoReturn
    /\ firstAdded = <<>>
    /\ issued = {}
    /\ held = NoReturn
    /\ http = [r \in Requests |-> NoRequest]
    /\ since = NothingSince
    /\ past = NoPast
    /\ \/ cart = <<>> /\ heap = <<>>
       \/ cart = <<1>> /\ heap = Store(<<>>, 1, MilkItem)

NextValidate ==
    /\ call.op = "none"
    /\ \E input \in WideAddInputs : addItem(input)
    /\ Unrecorded

SpecValidate == InitValidate /\ [][NextValidate]_vars

(***************************************************************************)
(* Three products added, updated and removed in any order, with the        *)
(* history of the first adds recorded: the specification under which the   *)
(* order of the items is checked.                                          *)
(***************************************************************************)
Eggs == <<"E", "g", "g", "s">>

\* productId 1 Milk, 2 Bread and 3 Eggs, each at price 2.5 and quantity 1
OrderAddInputs ==
    {AddItemInput(Num(p[1] * Scale), Str(p[2]), Num((5 * Scale) \div 2),
                  Num(1 * Scale)) :
        p \in {<<1, PaddedMilk>>, <<2, Bread>>, <<3, Eggs>>}}

OrderProductIds == {1 * Scale, 2 * Scale, 3 * Scale}

\* updateItem(productId, {quantity: 1})
OrderUpdate == UpdateItemInput(Num(1 * Scale), Undefined)

NextOrder ==
    \/ \E input \in OrderAddInputs : addItem(input) /\ Recorded
    \/ \E productId \in OrderProductIds :
            updateItem(productId, OrderUpdate) /\ Recorded
    \/ \E productId \in OrderProductIds : removeItem(productId) /\ Recorded

SpecOrder == Init /\ [][NextOrder]_vars

(***************************************************************************)
(* The calls of the specification's third scenario, in any order: Milk at  *)
(* 2.50 twice, Bread at 1.99 once, the quantity of a product set to 4.     *)
(***************************************************************************)
\* addItem({productId: 1, name: "Milk", price: 2.5, quantity: 2})
ScenarioMilk ==
    AddItemInput(Num(1 * Scale), Str(Milk), Num((5 * Scale) \div 2),
                 Num(2 * Scale))

\* addItem({productId: 2, name: "Bread", price: 1.99, quantity: 1})
ScenarioBread ==
    AddItemInput(Num(2 * Scale), Str(Bread), Num(2 * Scale - Scale \div 100),
                 Num(1 * Scale))

\* updateItem(productId, {quantity: 4})
ScenarioUpdate == UpdateItemInput(Num(4 * Scale), Undefined)

NextScenario ==
    \/ getCart /\ Unrecorded
    \/ \E input \in {ScenarioMilk, ScenarioBread} : addItem(input) /\ Unrecorded
    \/ \E productId \in ProductIdArgs :
            updateItem(productId, ScenarioUpdate) /\ Unrecorded
    \/ \E productId \in ProductIdArgs : removeItem(productId) /\ Unrecorded
    \/ clearCart /\ Unrecorded

SpecScenario == Init /\ [][NextScenario]_vars

(***************************************************************************)
(* Carts filled and checked out again and again, with the orderIds that    *)
(* were returned recorded: the specification under which the orderIds are  *)
(* compared.                                                               *)
(***************************************************************************)
NextCheckout ==
    \/ \E input \in {ScenarioMilk, ScenarioBread} :
            addItem(input) /\ RecordedOrders
    \/ \E now \in ClockReadings, suffix \in Suffixes, time \in ClockReadings :
            checkout(now, suffix, time) /\ RecordedOrders

SpecCheckout == Init /\ [][NextCheckout]_vars

(***************************************************************************)
(* The engine used by a caller that keeps one of the responses it was      *)
(* given while it goes on calling: the specification under which returned  *)
(* snapshots and order summaries are compared with what they were.         *)
(***************************************************************************)
\* updateItem(productId, {price: 1.99})
HeldPriceUpdate == UpdateItemInput(Undefined, Num(2 * Scale - Scale \div 100))

HeldSuffixes == {<<"1", "b", "9", "d", "6", "b", "c", "d">>}

\* the caller keeps the snapshot or order summary that the last call returned
Hold ==
    /\ held = NoReturn
    /\ ret.kind \in {"cart", "order"}
    /\ held' = ret
    /\ UNCHANGED <<cart, heap, call, ret, firstAdded, issued, http, past,
                   since>>

NextHeld ==
    \/ getCart /\ Unrecorded
    \/ \E input \in {ScenarioMilk, ScenarioBread} : addItem(input) /\ Unrecorded
    \/ \E updates \in {ScenarioUpdate, HeldPriceUpdate} :
            updateItem(1 * Scale, updates) /\ Unrecorded
    \/ removeItem(1 * Scale) /\ Unrecorded
    \/ clearCart /\ Unrecorded
    \/ \E suffix \in HeldSuffixes : checkout(1, suffix, 1) /\ Unrecorded
    \/ reset /\ Unrecorded
    \/ Hold

SpecHeld == Init /\ [][NextHeld]_vars

(***************************************************************************)
(* The HTTP layer: express.json(), the cart controllers wrapped in         *)
(* asyncHandler, the 404 handler and errorHandler.  A request is received, *)
(* its body is parsed, its controller calls the engine and sends the       *)
(* response; a thrown error rejects the controller's promise and           *)
(* errorHandler answers in its place.  Node.js runs one callback at a time *)
(* and to completion, together with the promise reactions it queues.       *)
(***************************************************************************)
DecimalDigits == <<"0", "1", "2", "3", "4", "5", "6", "7", "8", "9">>

IsDigit(ch) == \E d \in DOMAIN DecimalDigits : DecimalDigits[d] = ch

DigitValue(ch) == (CHOOSE d \in DOMAIN DecimalDigits : DecimalDigits[d] = ch) - 1

RECURSIVE LeadingDigits(_)
LeadingDigits(cs) ==
    IF cs = <<>> \/ ~IsDigit(Head(cs)) THEN <<>>
    ELSE <<Head(cs)>> \o LeadingDigits(Tail(cs))

RECURSIVE DecimalValue(_)
DecimalValue(ds) ==
    IF ds = <<>> THEN 0
    ELSE 10 * DecimalValue(SubSeq(ds, 1, Len(ds) - 1))
            + DigitValue(ds[Len(ds)])

\* parseInt(text, 10): leading white space, an optional sign and the longest
\* run of decimal digits; whatever follows is ignored
parseInt(cs) ==
    LET t == TrimStart(cs)
        signed == t # <<>> /\ Head(t) \in {"+", "-"}
        ds == LeadingDigits(IF signed THEN Tail(t) ELSE t)
    IN  IF ds = <<>> THEN NaN
        ELSE IF signed /\ Head(t) = "-" THEN -(DecimalValue(ds) * Scale)
        ELSE DecimalValue(ds) * Scale

\* JSON.stringify of a returned value: the items are written out as they are
\* when the response is sent
Json(r, h) ==
    [items |-> Deref(r.items, h), total |-> r.total,
     itemCount |-> r.itemCount, orderId |-> r.orderId,
     checkoutTime |-> r.checkoutTime]

\* what the engine answered at the time of the call
Outcome(r, h) ==
    [kind |-> r.kind, error |-> r.error, statusCode |-> r.statusCode,
     message |-> r.message, data |-> Json(r, h)]

\* the error express.json() passes on for a body that is no JSON text
SyntaxError ==
    Thrown("SyntaxError", StatusBadRequest, "Unexpected token in JSON")

\* err instanceof AppError
IsAppError(err) ==
    err.error \in {"AppError", "ValidationError", "NotFoundError",
                   "BadRequestError"}

\* mutant of SuccessStatus: every success is answered with 200
SuccessStatusOk(route) == StatusOk

\* res.status(...) of the controllers
SuccessStatus(route) == IF route = "addItem" THEN StatusCreated ELSE StatusOk

\* message of the controllers' responses
SuccessMessage(route) ==
    CASE route = "getCart" -> NoMessage
      [] route = "addItem" -> "Item added to cart"
      [] route = "updateItem" -> "Item updated"
      [] route = "removeItem" -> "Item removed from cart"
      [] route = "clearCart" -> "Cart cleared"
      [] route = "checkout" -> "Checkout successful"

\* mutant of Runnable: a callback starts while another is under way
RunnableAnyTime(r) == TRUE

\* run to completion: a callback of request r runs only when no other
\* request is inside a synchronous run, which is a controller between its
\* engine call and its response (the controllers await nothing) or
\* express.json() between a parse error and errorHandler, to which it hands
\* the error in a direct call of next.  A rejected controller holds nobody
\* up: .catch(next) hands its error on in a later microtask.
Runnable(r) ==
    \A q \in Requests \ {r} :
        /\ http[q].state # "called"
        /\ http[q].state = "rejected" => http[q].result # SyntaxError

\* the place of a new reaction job in the microtask queue: behind the
\* rejections of the other controllers that wait for errorHandler
NextTurn(r) ==
    LET waiting == {0} \cup {http[q].turn : q \in {p \in Requests \ {r} :
                                        http[p].state = "rejected"}}
    IN  1 + CHOOSE m \in waiting : \A n \in waiting : n <= m

EngineUnchanged == UNCHANGED <<cart, heap, call, ret>>

\* a request arrives
Receive(r, route, param, body) ==
    /\ http[r].state = "idle"
    /\ http' = [http EXCEPT ![r] =
                    [NoRequest EXCEPT !.state = "received", !.route = route,
                                      !.param = param, !.body = body]]
    /\ EngineUnchanged

\* express.json(): the body is parsed, or the parse error is passed on
jsonParser(r) ==
    /\ http[r].state = "received"
    /\ Runnable(r)
    /\ http' = IF http[r].body.parsed
               THEN [http EXCEPT ![r].state = "parsed"]
               ELSE [http EXCEPT ![r].state = "rejected",
                                 ![r].result = SyntaxError,
                                 ![r].outcome = Outcome(SyntaxError, heap)]
    /\ EngineUnchanged

\* mutant of Settled: the rejection is passed on to nobody (no .catch(next))
SettledUncaught(r) ==
    http' = [http EXCEPT
                ![r].state = IF ret'.kind = "error" THEN "unhandled"
                             ELSE "called",
                ![r].turn = IF ret'.kind = "error" THEN NextTurn(r) ELSE 0,
                ![r].result = NoReturn,
                ![r].outcome = Outcome(ret', heap')]

\* the controller's promise after the call of the engine: pending until the
\* response is sent, or rejected with the thrown error, which .catch(next)
\* passes on to errorHandler in a reaction job of the microtask queue
Settled(r) ==
    http' = [http EXCEPT
                ![r].state = IF ret'.kind = "error" THEN "rejected"
                             ELSE "called",
                ![r].turn = IF ret'.kind = "error" THEN NextTurn(r) ELSE 0,
                ![r].result = ret',
                ![r].outcome = Outcome(ret', heap')]

Routed(r, route) ==
    /\ http[r].state = "parsed"
    /\ http[r].route = route
    /\ Runnable(r)

getCartController(r) ==
    /\ Routed(r, "getCart")
    /\ getCart
    /\ Settled(r)

addItemController(r) ==
    /\ Routed(r, "addItem")
    /\ addItem(AddItemInput(http[r].body.productId, http[r].body.name,
                            http[r].body.price, http[r].body.quantity))
    /\ Settled(r)

updateItemController(r) ==
    /\ Routed(r, "updateItem")
    /\ updateItem(parseInt(http[r].param),
                  UpdateItemInput(http[r].body.quantity, http[r].body.price))
    /\ Settled(r)

removeItemController(r) ==
    /\ Routed(r, "removeItem")
    /\ removeItem(parseInt(http[r].param))
    /\ Settled(r)

clearCartController(r) ==
    /\ Routed(r, "clearCart")
    /\ clearCart
    /\ Settled(r)

checkoutController(r) ==
    /\ Routed(r, "checkout")
    /\ \E suffix \in HeldSuffixes : checkout(1, suffix, 1)
    /\ Settled(r)

\* res.status(...).json({success: true, message, data})
sendJson(r) ==
    /\ http[r].state = "called"
    /\ Runnable(r)
    /\ http' = [http EXCEPT
                    ![r].state = "done",
                    ![r].successes = @ + 1,
                    ![r].result = NoReturn,
                    ![r].response =
                        [status |-> SuccessStatus(http[r].route),
                         success |-> TRUE,
                         message |-> SuccessMessage(http[r].route),
                         data |-> Json(http[r].result, heap),
                         error |-> NoError]]
    /\ EngineUnchanged

\* the 404 handler for unknown routes
notFoundHandler(r) ==
    /\ Routed(r, "unknown")
    /\ http' = [http EXCEPT
                    ![r].state = "done",
                    ![r].failures = @ + 1,
                    ![r].response =
                        [NoResponse EXCEPT
                            !.status = StatusNotFound,
                            !.error = [message |-> "Route not found",
                                       statusCode |-> StatusNotFound]]]
    /\ EngineUnchanged

\* mutant of ErrorResponse: the error's own message and status are sent
\* whatever the error is
ErrorResponseOwn(err) ==
    [NoResponse EXCEPT
        !.status = err.statusCode,
        !.error = [message |-> err.message, statusCode |-> err.statusCode]]

\* the response of errorHandler to the error err
ErrorResponse(err) ==
    LET isOperational == IsAppError(err)
        statusCode == IF isOperational THEN err.statusCode
                      ELSE StatusInternalError
        message == IF isOperational THEN err.message
                   ELSE "Internal server error"
    IN  [NoResponse EXCEPT
            !.status = statusCode,
            !.error = [message |-> message, statusCode |-> statusCode]]

\* errorHandler, called through .catch(next), the reaction jobs running in
\* the order of the rejections, or by express.json()
errorHandler(r) ==
    /\ http[r].state = "rejected"
    /\ Runnable(r)
    /\ \A q \in Requests \ {r} :
            http[q].state = "rejected" => http[q].turn > http[r].turn
    /\ http' = [http EXCEPT
                    ![r].state = "done",
                    ![r].turn = 0,
                    ![r].failures = @ + 1,
                    ![r].result = NoReturn,
                    ![r].response = ErrorResponse(http[r].result)]
    /\ EngineUnchanged

\* the history of the adds is recorded: a successful checkout or clearCart
\* starts it anew, a successful addItem notes the object it pushed
RecordedAdds ==
    /\ since' =
            IF call'.op \in {"checkout", "clearCart"} /\ ret'.kind # "error"
            THEN NothingSince
            ELSE IF call'.op = "addItem" /\ ret'.kind = "cart"
            THEN [added |-> TRUE,
                  pushed |-> since.pushed \cup (Range(cart') \ Range(cart))]
            ELSE since
    /\ UNCHANGED <<firstAdded, issued, held, past>>

\* a step of the HTTP layer that calls no operation of the engine
NoCallMade == UNCHANGED <<firstAdded, issued, held, past, since>>

\* the body of POST /cart: {productId: 1, name: "Milk", price: 2.5,
\* quantity: 1}, and one that misses the quantity
HttpBodies ==
    {[parsed |-> TRUE, productId |-> ScenarioMilk.productId,
      name |-> ScenarioMilk.name, price |-> ScenarioMilk.price,
      quantity |-> q] : q \in {Num(1 * Scale), Undefined}}

\* a body that is no JSON text
MalformedBody == [NoBody EXCEPT !.parsed = FALSE]

\* the body of PUT /cart/:productId : {quantity: 1}
HttpUpdateBody == [NoBody EXCEPT !.quantity = Num(1 * Scale)]

\* the :productId of a path
HttpParams == {<<"1">>, <<"a", "b", "c">>}

NoParam == <<>>

HttpRequests ==
    {<<"getCart", NoParam, NoBody>>, <<"clearCart", NoParam, NoBody>>,
     <<"checkout", NoParam, NoBody>>, <<"unknown", NoParam, NoBody>>,
     <<"addItem", NoParam, MalformedBody>>}
    \cup {<<"addItem", NoParam, b>> : b \in HttpBodies}
    \cup {<<"updateItem", p, HttpUpdateBody>> : p \in HttpParams}
    \cup {<<"removeItem", p, NoBody>> : p \in HttpParams}

\* the service at the start: a new cart, or the cart after
\* addItem({productId: 1, name: "Milk", price: 2.5, quantity: 1})
InitHttp ==
    /\ call = NoCall
    /\ ret = NoReturn
    /\ firstAdded = <<>>
    /\ issued = {}
    /\ held = NoReturn
    /\ http = [r \in Requests |-> NoRequest]
    /\ past = NoPast
    /\ \/ cart = <<>> /\ heap = <<>> /\ since = NothingSince
       \/ /\ cart = <<1>>
          /\ heap = Store(<<>>, 1, MilkItem)
          /\ since = [added |-> TRUE, pushed |-> {1}]

NextHttp ==
    \E r \in Requests :
        \/ \E q \in HttpRequests : Receive(r, q[1], q[2], q[3]) /\ NoCallMade
        \/ jsonParser(r) /\ NoCallMade
        \/ getCartController(r) /\ RecordedAdds
        \/ addItemController(r) /\ RecordedAdds
        \/ updateItemController(r) /\ RecordedAdds
        \/ removeItemController(r) /\ RecordedAdds
        \/ clearCartController(r) /\ RecordedAdds
        \/ checkoutController(r) /\ RecordedAdds
        \/ sendJson(r) /\ NoCallMade
        \/ notFoundHandler(r) /\ NoCallMade
        \/ errorHandler(r) /\ NoCallMade

SpecHttp == InitHttp /\ [][NextHttp]_vars

\* the callbacks of request r that the event loop runs once the request has
\* arrived
Callbacks(r) ==
    \/ jsonParser(r) /\ NoCallMade
    \/ getCartController(r) /\ RecordedAdds
    \/ addItemController(r) /\ RecordedAdds
    \/ updateItemController(r) /\ RecordedAdds
    \/ removeItemController(r) /\ RecordedAdds
    \/ clearCartController(r) /\ RecordedAdds
    \/ checkoutController(r) /\ RecordedAdds
    \/ sendJson(r) /\ NoCallMade
    \/ notFoundHandler(r) /\ NoCallMade
    \/ errorHandler(r) /\ NoCallMade

\* the service as the server starts it: a new cart and no request
InitHttpLive == InitHttp /\ cart = <<>>

\* the event loop runs a callback whenever one is ready
SpecHttpLive ==
    /\ InitHttpLive
    /\ [][NextHttp]_vars
    /\ WF_vars(\E r \in Requests : Callbacks(r))

(***************************************************************************)
(* A product added, removed and added again with another name, price and   *)
(* quantity, beside a second product, with the cart before each call and   *)
(* the removed line items recorded: the specification under which an       *)
(* addItem is compared with the removeItem before or after it.             *)
(***************************************************************************)
\* addItem({productId: 1, name: "  Milk  ", price: 2.5, quantity: 1}), the
\* same productId sent as {name: "Eggs", price: 1.99, quantity: 2}, and
\* addItem({productId: 2, name: "Bread", price: 2.5, quantity: 1})
PairAddInputs ==
    {AddItemInput(Num(1 * Scale), Str(PaddedMilk), Num((5 * Scale) \div 2),
                  Num(1 * Scale)),
     AddItemInput(Num(1 * Scale), Str(Eggs), Num(2 * Scale - Scale \div 100),
                  Num(2 * Scale)),
     AddItemInput(Num(2 * Scale), Str(Bread), Num((5 * Scale) \div 2),
                  Num(1 * Scale))}

\* updateItem(productId, {quantity: 2, price: 1.99})
PairUpdate ==
    UpdateItemInput(Num(2 * Scale), Num(2 * Scale - Scale \div 100))

\* the cart before the call is recorded, the call before it with the cart
\* it found, and the line item that a successful removeItem takes out
RecordedPast ==
    /\ past' =
            [cart |-> cart, items |-> Items,
             call |-> call, succeeded |-> ret.kind = "cart",
             priorCart |-> past.cart, priorItems |-> past.items,
             removed |->
                IF call'.op = "removeItem" /\ ret'.kind = "cart"
                THEN past.removed
                        \cup (Range(Items) \ Range(Deref(cart', heap')))
                ELSE past.removed]
    /\ UNCHANGED <<firstAdded, issued, held, http, since>>

NextPairs ==
    \/ \E input \in PairAddInputs : addItem(input) /\ RecordedPast
    \/ \E productId \in ProductIdArgs : removeItem(productId) /\ RecordedPast
    \/ getCart /\ RecordedPast

SpecPairs == Init /\ [][NextPairs]_vars

(***************************************************************************)
(* Products added and updated, any call made again at once, with the cart  *)
(* before each call and the call before it recorded: the specification     *)
(* under which a call is compared with the same call made before it.       *)
(***************************************************************************)
\* the cart before the call and the call before it are recorded
RecordedCalls ==
    /\ past' =
            [cart |-> cart, items |-> Items,
             call |-> call, succeeded |-> ret.kind = "cart",
             priorCart |-> past.cart, priorItems |-> past.items,
             removed |-> past.removed]
    /\ UNCHANGED <<firstAdded, issued, held, http, since>>

NextTwice ==
    \/ \E input \in PairAddInputs : addItem(input) /\ RecordedCalls
    \/ \E productId \in ProductIdArgs :
            updateItem(productId, PairUpdate) /\ RecordedCalls
    \/ getCart /\ RecordedCalls

SpecTwice == Init /\ [][NextTwice]_vars

(***************************************************************************)
(* Vocabulary of the properties, stated without the engine's helpers.      *)
(***************************************************************************)
\* the line items of the cart after the step
ItemsAfter == Deref(cart', heap')

\* the line items a response lists
Listed(r) == Deref(r.items, heap)

RECURSIVE SumOver(_, _)
SumOver(S, f) ==
    IF S = {} THEN 0
    ELSE LET x == CHOOSE y \in S : TRUE
         IN  f[x] + SumOver(S \ {x}, f)

\* sum of quantity over the items its
QuantitySum(its) ==
    SumOver(DOMAIN its, [i \in DOMAIN its |-> its[i].quantity])

\* sum of price * quantity over the items its, in units of 1 / Scale^2; no
\* number when a price is none
PriceSum(its) ==
    IF \E i \in DOMAIN its : its[i].price = NaN THEN NaN
    ELSE SumOver(DOMAIN its,
                 [i \in DOMAIN its |-> its[i].price * its[i].quantity])

\* one cent, in units of 1 / Scale^2
Cent == (Scale * Scale) \div CentsPerUnit

\* t is x rounded to the nearest cent, a half cent going up
\* (t a number, x in units of 1 / Scale^2)
IsHalfUpCents(t, x) ==
    /\ t # NaN
    /\ x # NaN
    /\ (t * Scale) % Cent = 0
    /\ 2 * t * Scale - Cent <= 2 * x
    /\ 2 * x < 2 * t * Scale + Cent

\* n is cs without its leading and trailing whitespace
IsTrimOf(n, cs) ==
    \E i \in 1 .. Len(cs) + 1, j \in 0 .. Len(cs) :
        /\ n = SubSeq(cs, i, j)
        /\ \A k \in 1 .. (i - 1) : cs[k] \in WhiteSpace
        /\ \A k \in (j + 1) .. Len(cs) : cs[k] \in WhiteSpace
        /\ n # <<>> => n[1] \notin WhiteSpace /\ n[Len(n)] \notin WhiteSpace

\* the rules of addItem's input, as the specification states them
IsValidAddInput(c) ==
    /\ c.productId.t = "number"
    /\ c.name.t = "string"
    /\ \E k \in 1 .. Len(c.name.s) : c.name.s[k] \notin WhiteSpace
    /\ c.price.t = "number" /\ c.price.n > 0
    /\ c.quantity.t = "number"
    /\ c.quantity.n >= 1 * Scale
    /\ (c.quantity.n \div Scale) * Scale = c.quantity.n

\* the rule of each field of addItem's input; a productId 0 is refused as an
\* absent one is (C10)
IsValidProductId(v) == v.t = "number" /\ v.n \notin {0, NaN}
IsValidName(v) ==
    v.t = "string" /\ \E k \in 1 .. Len(v.s) : v.s[k] \notin WhiteSpace
IsValidPrice(v) == v.t = "number" /\ v.n > 0
IsValidQuantity(v) ==
    v.t = "number" /\ v.n >= 1 * Scale /\ (v.n \div Scale) * Scale = v.n

\* the earliest invalid field of an addItem input, in the order productId,
\* name, price, quantity
FirstInvalidField(c) ==
    IF ~IsValidProductId(c.productId) THEN "productId"
    ELSE IF ~IsValidName(c.name) THEN "name"
    ELSE IF ~IsValidPrice(c.price) THEN "price"
    ELSE IF ~IsValidQuantity(c.quantity) THEN "quantity"
    ELSE "none"

\* the field the message of a ValidationError of addItem names
FieldOfMessage(msg) ==
    CASE msg = "productId is required and must be a number" -> "productId"
      [] msg = "name is required and must be a non-empty string" -> "name"
      [] msg = "price must be greater than 0" -> "price"
      [] msg = "quantity must be at least 1 and must be an integer"
            -> "quantity"
      [] OTHER -> "none"

\* the rules of updateItem's fields, as the specification states them
AreValidUpdateFields(q, pr) ==
    /\ q.t # "undefined" \/ pr.t # "undefined"
    /\ q.t # "undefined"
        => /\ q.t = "number"
           /\ q.n >= 1 * Scale
           /\ (q.n \div Scale) * Scale = q.n
    /\ pr.t # "undefined" => pr.t = "number" /\ pr.n > 0

\* the response r is the empty snapshot {items: [], total: 0, itemCount: 0}
IsEmptySnapshot(r) ==
    r.kind = "cart" /\ r.items = <<>> /\ r.total = 0 /\ r.itemCount = 0

\* the sequence s without its k-th element
Without(s, k) == [i \in 1 .. (Len(s) - 1) |-> IF i < k THEN s[i] ELSE s[i + 1]]

\* the place of x in the sequence s, which holds it
IndexIn(s, x) == CHOOSE k \in 1 .. Len(s) : s[k] = x

\* the place of the item of productId in the items its, which hold it
PlaceOf(its, productId) ==
    CHOOSE k \in 1 .. Len(its) : its[k].productId = productId

\* the productId is the key of some item of its
InItems(its, productId) == \E i \in DOMAIN its : its[i].productId = productId

(***************************************************************************)
(* Properties.                                                             *)
(***************************************************************************)

\* C1: in every reachable state no two line items of the cart have the same
\* productId (and no object is listed twice).
C1_UniqueProductId ==
    \A i, j \in 1 .. Len(cart) :
        i # j => cart[i] # cart[j] /\ Items[i].productId # Items[j].productId

\* C1 witness: a repeat addItem for a product of a two-item cart has run
C1_Witness ==
    /\ call.op = "addItem"
    /\ ret.kind = "cart"
    /\ Len(cart) = 2
    /\ \E i \in 1 .. Len(cart) :
        /\ Items[i].productId = call.productId.n
        /\ Items[i].quantity > call.quantity.n

\* C2: every snapshot returned by getCart, addItem, updateItem, removeItem or
\* clearCart lists the items of the cart, its itemCount is the sum of their
\* quantities and its total is the sum of price * quantity rounded to the
\* nearest cent, a half cent going up.  The code computes the sum and its
\* rounding in binary floating point: the total of one item of price 1.005
\* and quantity 1 is 1, where the sum rounded half-up to the cent is 1.01.
C2_SnapshotTotals ==
    ret.kind = "cart" =>
        /\ call.op \in {"getCart", "addItem", "updateItem", "removeItem",
                        "clearCart"}
        /\ Listed(ret) = Items
        /\ ret.itemCount = QuantitySum(Items)
        /\ IsHalfUpCents(ret.total, PriceSum(Items))

\* C3: a valid addItem for a productId already in the cart adds the incoming
\* quantity to that item's quantity, keeps its name and price, keeps the
\* number of line items and leaves every other item as it was.
C3_AddExistingIncrements ==
    [][(/\ call'.op = "addItem"
        /\ ret'.kind = "cart"
        /\ InItems(Items, call'.productId.n))
       => /\ Len(cart') = Len(cart)
          /\ \A i \in 1 .. Len(cart) :
                ItemsAfter[i] =
                    IF Items[i].productId = call'.productId.n
                    THEN [Items[i] EXCEPT
                            !.quantity = Items[i].quantity + call'.quantity.n]
                    ELSE Items[i]]_vars

\* C3 witness: after an addItem that carried another name (a padded one) and
\* another price than the stored item has, in a cart of two items
C3_Witness ==
    /\ call.op = "addItem"
    /\ ret.kind = "cart"
    /\ Len(cart) = 2
    /\ \E i \in 1 .. Len(cart) :
        /\ Items[i].productId = call.productId.n
        /\ Items[i].name # call.name.s
        /\ Items[i].price # call.price.n

\* C4: a valid addItem for a productId not in the cart appends one line item
\* as the last element, with the given productId, the given name without its
\* leading and trailing whitespace, the given price and the given quantity;
\* the items already present keep their values and positions; a getCart that
\* follows a successful addItem lists the cart as the addItem left it.
C4_AddNewAppends ==
    [][/\ (/\ call'.op = "addItem"
           /\ ret'.kind = "cart"
           /\ ~InItems(Items, call'.productId.n))
          => /\ Len(cart') = Len(cart) + 1
             /\ \A i \in 1 .. Len(cart) :
                    cart'[i] = cart[i] /\ ItemsAfter[i] = Items[i]
             /\ ItemsAfter[Len(cart')].productId = call'.productId.n
             /\ IsTrimOf(ItemsAfter[Len(cart')].name, call'.name.s)
             /\ ItemsAfter[Len(cart')].price = call'.price.n
             /\ ItemsAfter[Len(cart')].quantity = call'.quantity.n
             /\ Deref(ret'.items, heap') = ItemsAfter
       /\ (call.op = "addItem" /\ ret.kind = "cart" /\ call'.op = "getCart")
          => /\ ret'.kind = "cart"
             /\ ItemsAfter = Items
             /\ Deref(ret'.items, heap') = Items
             /\ InItems(Items, call.productId.n)]_vars

\* C4 witness: an addItem with a padded name has appended the second item of
\* the cart
C4_Witness ==
    /\ call.op = "addItem"
    /\ ret.kind = "cart"
    /\ Len(cart) = 2
    /\ Items[2].productId = call.productId.n
    /\ Items[2].quantity = call.quantity.n
    /\ Items[2].price = call.price.n
    /\ Items[2].name # call.name.s
    /\ Items[1].name # Items[2].name

\* C5: after a successful checkout the cart is empty, whatever it held, and
\* a getCart made next returns items = [], total = 0, itemCount = 0.
C5_CheckoutEmptiesCart ==
    [][/\ (call'.op = "checkout" /\ ret'.kind = "order") => cart' = <<>>
       /\ (call.op = "checkout" /\ ret.kind = "order" /\ call'.op = "getCart")
          => IsEmptySnapshot(ret') /\ cart' = <<>>]_vars

\* C5 witness: a checkout of a cart of two items has succeeded
C5_Witness ==
    /\ call.op = "checkout"
    /\ ret.kind = "order"
    /\ Len(ret.items) = 2
    /\ cart = <<>>

\* C6: the order summary of a successful checkout lists the items the cart
\* held just before the checkout, in the same order and with the same
\* fields, and, when a getCart was the call just before the checkout, the
\* items, the total and the itemCount are those that getCart returned.
C6_OrderSummaryIsPreClear ==
    [][(call'.op = "checkout" /\ ret'.kind = "order")
       => /\ Len(cart) >= 1
          /\ Deref(ret'.items, heap') = Items
          /\ ret'.itemCount = QuantitySum(Items)
          /\ call.op = "getCart"
                => /\ Deref(ret'.items, heap') = Listed(ret)
                   /\ ret'.total = ret.total
                   /\ ret'.itemCount = ret.itemCount]_vars

\* C6 witness: an order summary of two different products with a positive
\* total
C6_Witness ==
    /\ call.op = "checkout"
    /\ ret.kind = "order"
    /\ Len(ret.items) = 2
    /\ Listed(ret)[1].productId # Listed(ret)[2].productId
    /\ ret.total > 0
    /\ ret.itemCount = MaxQty * Scale + 1 * Scale

\* C7: checkout succeeds exactly when the cart holds at least one item; on
\* an empty cart it throws BadRequestError with status 400, returns no
\* order and leaves the cart empty.
C7_CheckoutNeedsItems ==
    [][call'.op = "checkout"
       => /\ (ret'.kind = "order") <=> (Len(cart) >= 1)
          /\ Len(cart) = 0
             => /\ ret'.kind = "error"
                /\ ret'.error = "BadRequestError"
                /\ ret'.statusCode = 400
                /\ ret'.items = <<>>
                /\ cart' = <<>>
                /\ ItemsAfter = Items]_vars

\* C7 witness: a checkout of the empty cart has been refused
C7_Witness ==
    /\ call.op = "checkout"
    /\ ret.kind = "error"
    /\ ret.error = "BadRequestError"
    /\ cart = <<>>

\* C8: updateItem with valid update fields, and removeItem, called with a
\* productId that is not in the cart throw NotFoundError with status 404 and
\* leave the cart as it was: same items, same field values, same order.
C8_AbsentProductNotFound ==
    [][(/\ \/ /\ call'.op = "updateItem"
              /\ AreValidUpdateFields(call'.quantity, call'.price)
           \/ call'.op = "removeItem"
        /\ ~InItems(Items, call'.productId.n))
       => /\ ret'.kind = "error"
          /\ ret'.error = "NotFoundError"
          /\ ret'.statusCode = 404
          /\ cart' = cart
          /\ ItemsAfter = Items]_vars

\* C8 witness: an updateItem of both fields for a productId that a cart of
\* two items does not hold has thrown NotFoundError
C8_Witness ==
    /\ call.op = "updateItem"
    /\ call.quantity # Undefined
    /\ call.price # Undefined
    /\ ret.error = "NotFoundError"
    /\ Len(cart) = 2
    /\ ~InItems(Items, call.productId.n)

\* C9: an addItem that fails validation throws ValidationError (status 400)
\* and leaves the cart unchanged, whether its productId is in the cart or
\* not; an addItem with an invalid field always fails.
C9_InvalidAddLeavesCart ==
    [][(/\ call'.op = "addItem"
        /\ (~IsValidAddInput(call') \/ ret'.kind = "error"))
       => /\ ret'.kind = "error"
          /\ ret'.error = "ValidationError"
          /\ ret'.statusCode = 400
          /\ cart' = cart
          /\ ItemsAfter = Items]_vars

\* C10 as stated: addItem succeeds exactly when productId is present and a
\* number, name is a string that is non-empty after trimming, price is a
\* number > 0 and quantity is an integer >= 1, and throws ValidationError
\* otherwise.  The code refuses productId 0.
C10_Original ==
    call.op = "addItem" =>
        /\ (ret.kind = "cart") <=> IsValidAddInput(call)
        /\ ret.kind # "cart" => ret.error = "ValidationError"

\* C11: addItem checks productId, name, price and quantity in this order and
\* reports the first violation only: the ValidationError it throws is the one
\* of the earliest invalid field, however many fields are invalid.
C11_FirstViolationWins ==
    call.op = "addItem" =>
        /\ ret.kind = "error" <=> FirstInvalidField(call) # "none"
        /\ ret.kind = "error"
            => /\ ret.error = "ValidationError"
               /\ FieldOfMessage(ret.message) = FirstInvalidField(call)

\* C12: updateItem checks, in this order, that quantity or price is given,
\* that a given quantity is an integer >= 1, that a given price is > 0, and
\* that the item exists: with no field or an invalid field it throws
\* ValidationError even for a productId that is not in the cart, and it
\* throws NotFoundError only when the fields are valid.
C12_UpdateChecksInOrder ==
    [][call'.op = "updateItem"
       => /\ ret'.kind \in {"cart", "error"}
          /\ ret'.message =
                IF call'.quantity.t = "undefined" /\ call'.price.t = "undefined"
                THEN "At least one field (quantity or price) must be provided"
                ELSE IF /\ call'.quantity.t # "undefined"
                        /\ ~IsValidQuantity(call'.quantity)
                THEN "quantity must be at least 1 and must be an integer"
                ELSE IF /\ call'.price.t # "undefined"
                        /\ ~IsValidPrice(call'.price)
                THEN "price must be greater than 0"
                ELSE IF ~InItems(Items, call'.productId.n)
                THEN NotFoundMessage(call'.productId.n)
                ELSE ""
          /\ ~AreValidUpdateFields(call'.quantity, call'.price)
                => ret'.error = "ValidationError"
          /\ ret'.error = "NotFoundError"
                => /\ AreValidUpdateFields(call'.quantity, call'.price)
                   /\ ~InItems(Items, call'.productId.n)]_vars

\* C13: a successful updateItem sets the quantity and the price of the item
\* to the values given (it does not add to them), keeps the value of a field
\* that was not given, keeps the item's productId, name and position, and
\* leaves every other item as it was.
C13_UpdateSetsGivenFields ==
    [][(call'.op = "updateItem" /\ ret'.kind = "cart")
       => /\ cart' = cart
          /\ InItems(Items, call'.productId.n)
          /\ \A i \in 1 .. Len(cart) :
                ItemsAfter[i] =
                    IF Items[i].productId = call'.productId.n
                    THEN [productId |-> Items[i].productId,
                          name |-> Items[i].name,
                          price |-> IF call'.price.t = "undefined"
                                    THEN Items[i].price
                                    ELSE call'.price.n,
                          quantity |-> IF call'.quantity.t = "undefined"
                                       THEN Items[i].quantity
                                       ELSE call'.quantity.n]
                    ELSE Items[i]]_vars

\* C13 witness: an updateItem of the price alone has succeeded on the second
\* item of a cart, whose quantity is 2 and whose price differs from the first
\* item's
C13_Witness ==
    /\ call.op = "updateItem"
    /\ ret.kind = "cart"
    /\ call.quantity.t = "undefined"
    /\ Len(cart) = 2
    /\ Items[2].productId = call.productId.n
    /\ Items[2].price = call.price.n
    /\ Items[2].quantity = 2 * Scale
    /\ Items[1].price # Items[2].price

\* C14: updateItem applies no part of an update: when quantity and price are
\* both given and exactly one of them is invalid, it throws ValidationError
\* and the item keeps its quantity and its price.
C14_NoPartialUpdate ==
    [][(/\ call'.op = "updateItem"
        /\ call'.quantity.t # "undefined"
        /\ call'.price.t # "undefined"
        /\ IsValidQuantity(call'.quantity) # IsValidPrice(call'.price))
       => /\ ret'.kind = "error"
          /\ ret'.error = "ValidationError"
          /\ cart' = cart
          /\ ItemsAfter = Items]_vars

\* C15: a successful removeItem(p) removes the line item of productId p and
\* nothing else: p is no longer in the cart, there is one line item less,
\* and the other items keep their fields and their relative order.
C15_RemoveTakesOneItem ==
    [][(call'.op = "removeItem" /\ ret'.kind = "cart")
       => /\ Len(cart') = Len(cart) - 1
          /\ ~InItems(ItemsAfter, call'.productId.n)
          /\ \E k \in 1 .. Len(cart) :
                /\ Items[k].productId = call'.productId.n
                /\ cart' = Without(cart, k)
                /\ ItemsAfter = Without(Items, k)]_vars

\* C15 witness: the second of three products added has been removed, and
\* the first and the third remain, in this order
C15_Witness ==
    /\ call.op = "removeItem"
    /\ ret.kind = "cart"
    /\ Len(firstAdded) = 3
    /\ firstAdded[2] = call.productId.n
    /\ Len(cart) = 2
    /\ Items[1].productId = firstAdded[1]
    /\ Items[2].productId = firstAdded[3]

\* C16: clearCart succeeds in every state and leaves the cart empty, a
\* getCart that follows returns items = [], total = 0, itemCount = 0, and a
\* second clearCart returns the same result and leaves the same state.
C16_ClearCartIdempotent ==
    [][/\ call'.op = "clearCart" => IsEmptySnapshot(ret') /\ cart' = <<>>
       /\ (call.op = "clearCart" /\ call'.op \in {"getCart", "clearCart"})
          => /\ IsEmptySnapshot(ret')
             /\ ret'.items = ret.items
             /\ ret'.total = ret.total
             /\ ret'.itemCount = ret.itemCount
             /\ cart' = cart
             /\ heap' = heap]_vars

\* C16 witness: clearCart has returned the empty snapshot and no item is
\* left, in the cart or in the store
C16_Witness ==
    /\ call.op = "clearCart"
    /\ IsEmptySnapshot(ret)
    /\ cart = <<>>
    /\ heap = <<>>

\* C17: getCart succeeds in every state and does not change the cart; two
\* getCart calls in a row return equal snapshots; the first getCart of a new
\* engine returns items = [], total = 0, itemCount = 0.
C17_GetCartReadsOnly ==
    [][call'.op = "getCart"
       => /\ ret'.kind = "cart"
          /\ cart' = cart
          /\ ItemsAfter = Items
          /\ Deref(ret'.items, heap') = Items
          /\ call.op = "getCart"
                => /\ Deref(ret'.items, heap') = Listed(ret)
                   /\ ret'.total = ret.total
                   /\ ret'.itemCount = ret.itemCount
          /\ call.op = "none" => IsEmptySnapshot(ret')]_vars

\* C17 witness: getCart has returned a snapshot of the two items of the cart
C17_Witness ==
    /\ call.op = "getCart"
    /\ ret.kind = "cart"
    /\ Len(ret.items) = 2
    /\ Listed(ret) = Items
    /\ ret.itemCount > 2 * Scale

\* C18 as stated: the items of the cart are listed in the order in which
\* their productIds were first added, also after a removeItem of a productId
\* and a later addItem of it.  The code appends a productId that is added
\* again after its removal: it comes after productIds first added later.
C18_Original ==
    \A i, j \in 1 .. Len(cart) :
        i < j => IndexIn(firstAdded, Items[i].productId)
                    < IndexIn(firstAdded, Items[j].productId)

\* C18 amended: the items of the cart are listed in the order in which the
\* line items were appended: every call keeps the relative order of the
\* items that stay in the cart, and an addItem of a productId that is not in
\* the cart, never added or removed before, puts its item last.
C18_AppendOrderKept ==
    [][/\ \A i, j \in 1 .. Len(cart') :
            (/\ i < j
             /\ InItems(Items, ItemsAfter[i].productId)
             /\ InItems(Items, ItemsAfter[j].productId))
            => PlaceOf(Items, ItemsAfter[i].productId)
                 < PlaceOf(Items, ItemsAfter[j].productId)
       /\ \A j \in 1 .. Len(cart') :
            ~InItems(Items, ItemsAfter[j].productId)
            => /\ j = Len(cart')
               /\ call'.op = "addItem"
               /\ call'.productId.n = ItemsAfter[j].productId]_vars

\* C18 witness: the productId that was added first has been removed and
\* added again, and is the last of the three items of the cart
C18_Witness ==
    /\ call.op = "addItem"
    /\ ret.kind = "cart"
    /\ Len(cart) = 3
    /\ Len(firstAdded) = 3
    /\ call.productId.n = firstAdded[1]
    /\ Items[3].productId = firstAdded[1]
    /\ Items[3].quantity = call.quantity.n

\* C19: in every reachable state the quantity of every line item is an
\* integer >= 1: no addItem or updateItem, accepted or refused, leaves an item
\* with a quantity that is 0, negative or not an integer.
C19_QuantityIntegerAtLeastOne ==
    \A i \in 1 .. Len(cart) :
        /\ Items[i].quantity >= 1 * Scale
        /\ (Items[i].quantity \div Scale) * Scale = Items[i].quantity

\* C19 witness: an updateItem with the quantity 0 alone has been refused for
\* an item of the cart, whose quantity is 2 after an increment
C19_Witness ==
    /\ call.op = "updateItem"
    /\ call.quantity = Num(0)
    /\ call.price.t = "undefined"
    /\ ret.error = "ValidationError"
    /\ \E i \in 1 .. Len(cart) :
            /\ Items[i].productId = call.productId.n
            /\ Items[i].quantity = 2 * Scale

\* C20: in every reachable state the price of every line item is > 0: no
\* addItem or updateItem stores a price that is 0 or negative.
C20_PricePositive ==
    \A i \in 1 .. Len(cart) : Items[i].price > 0

\* the items of the cart after addItem(Milk) and addItem(Bread) on an empty
\* cart
ScenarioItems ==
    <<[productId |-> 1 * Scale, name |-> Milk, price |-> (5 * Scale) \div 2,
       quantity |-> 2 * Scale],
      [productId |-> 2 * Scale, name |-> Bread,
       price |-> 2 * Scale - Scale \div 100, quantity |-> 1 * Scale]>>

\* the step updateItem(1, {quantity: 4}) made right after the addItem of Bread
\* that followed the addItem of Milk on an empty cart
ScenarioStep ==
    /\ call.op = "addItem"
    /\ call.productId = Num(2 * Scale)
    /\ Items = ScenarioItems
    /\ call'.op = "updateItem"
    /\ call'.productId = Num(1 * Scale)
    /\ call'.quantity = Num(4 * Scale)
    /\ call'.price = Undefined

\* C21 as stated: from an empty cart, addItem(1, Milk, 2.50, 2), addItem(2,
\* Bread, 1.99, 1) and updateItem(1, {quantity: 4}) return a snapshot in which
\* item 1 has quantity 4 and the total is 11.97.  The code returns 11.99,
\* which is 4 * 2.50 + 1.99.
C21_Original ==
    [][ScenarioStep
       => /\ ret'.kind = "cart"
          /\ ItemsAfter[1].quantity = 4 * Scale
          /\ ret'.total = 12 * Scale - (3 * Scale) \div 100]_vars

\* C21 amended: from an empty cart, addItem(1, Milk, 2.50, 2), addItem(2,
\* Bread, 1.99, 1) and updateItem(1, {quantity: 4}) return a snapshot in which
\* item 1 has quantity 4, item 2 is as it was and the total is 11.99.
C21_ScenarioTotal ==
    [][ScenarioStep
       => /\ ret'.kind = "cart"
          /\ ItemsAfter[1].quantity = 4 * Scale
          /\ ItemsAfter[2] = Items[2]
          /\ Deref(ret'.items, heap') = ItemsAfter
          /\ ret'.itemCount = 5 * Scale
          /\ ret'.total = 12 * Scale - Scale \div 100]_vars

\* C21 witness: the state after the three calls of the scenario
C21_Witness ==
    /\ call.op = "updateItem"
    /\ call.productId = Num(1 * Scale)
    /\ call.quantity = Num(4 * Scale)
    /\ ret.kind = "cart"
    /\ Items = <<[ScenarioItems[1] EXCEPT !.quantity = 4 * Scale],
                 ScenarioItems[2]>>
    /\ ret.total = 12 * Scale - Scale \div 100

\* C22: two successful checkout calls never return the same orderId, also
\* when both run within the same millisecond.  The orderId is made of the
\* clock reading and 8 characters of a random UUID: two checkouts that read
\* the same millisecond and draw the same 8 characters return the same
\* orderId.
C22_OrderIdsDiffer ==
    [][(call'.op = "checkout" /\ ret'.kind = "order")
       => ret'.orderId \notin issued]_vars

\* C26: addItem accepts a productId only if it is a positive integer: an
\* addItem whose productId is 0, negative or a non-integer number throws
\* ValidationError and leaves the cart as it was.  The code refuses 0 only:
\* a negative or fractional productId is stored.
C26_ProductIdPositiveInteger ==
    [][(/\ call'.op = "addItem"
        /\ call'.productId.t = "number"
        /\ \/ call'.productId.n <= 0
           \/ ~IsInteger(call'.productId.n))
       => /\ ret'.kind = "error"
          /\ ret'.error = "ValidationError"
          /\ ItemsAfter = Items]_vars

\* C27: every price stored in the cart is a whole number of cents.  The code
\* checks price > 0 only, so a price such as 1.005 is stored.
C27_PricesWholeCents ==
    \A i \in DOMAIN Items : Items[i].price % (Scale \div CentsPerUnit) = 0

\* the line items that the response the caller keeps lists now
HeldItems == Deref(held.items, heap)

\* the line items that it lists after the step
HeldItemsAfter == Deref(held.items, heap')

\* C28: a snapshot returned by getCart, addItem, updateItem or removeItem is a
\* fixed value: no later operation changes the items, quantities or prices
\* seen through it.  The snapshot lists the cart's own item objects, so a
\* later addItem of the same productId or an updateItem changes them.
C28_SnapshotFixed ==
    [][(held.kind = "cart" /\ held' = held)
       => HeldItemsAfter = HeldItems]_vars

\* C29: an order summary returned by a successful checkout is never altered
\* by a later operation: whatever is called after the checkout, its items,
\* total and itemCount stay as they were when it was returned.
C29_OrderSummaryFixed ==
    [][(held.kind = "order" /\ held' = held)
       => /\ HeldItemsAfter = HeldItems
          /\ held.total = calculateTotal(held.items, heap')
          /\ held.itemCount = calculateItemCount(held.items, heap')]_vars

\* C29 witness: the caller keeps an order summary listing product 1, and a
\* later addItem of product 1 followed by an updateItem has changed the
\* quantity of product 1 in the cart
C29_Witness ==
    /\ held.kind = "order"
    /\ InItems(HeldItems, 1 * Scale)
    /\ call.op = "updateItem"
    /\ ret.kind = "cart"
    /\ \E i \in DOMAIN Items, j \in DOMAIN HeldItems :
            /\ Items[i].productId = 1 * Scale
            /\ HeldItems[j].productId = 1 * Scale
            /\ Items[i].quantity # HeldItems[j].quantity

\* the requests that are answered, and those whose engine call succeeded
Answered(r) == http[r].state = "done"
Succeeded(r) == http[r].outcome.kind \in {"cart", "order"}
Failed(r) == http[r].outcome.kind = "error"

\* the line items of a written-out snapshot, refound as a cart of its own
TotalOf(its) == calculateTotal([i \in DOMAIN its |-> i], its)
CountOf(its) == calculateItemCount([i \in DOMAIN its |-> i], its)

\* C23: with several HTTP requests in flight each cart operation runs
\* atomically.  No controller is between its engine call and its response
\* while another request's callback runs: the value a controller holds is
\* the result of the latest engine call; every success response carries the
\* snapshot the engine returned to that request, whose total and itemCount
\* are those of the items it lists; and the cart every request finds has one
\* line per productId, with integer quantities >= 1 and prices > 0.
C23_RequestsRunAtomically ==
    /\ Cardinality({r \in Requests : http[r].state = "called"}) <= 1
    /\ \A r \in Requests :
            http[r].state = "called"
                => http[r].result = ret /\ call.op = http[r].route
    /\ \A r \in Requests :
            (Answered(r) /\ http[r].response.success)
                => /\ http[r].response.data = http[r].outcome.data
                   /\ http[r].response.data.total
                        = TotalOf(http[r].response.data.items)
                   /\ http[r].response.data.itemCount
                        = CountOf(http[r].response.data.items)
    /\ \A i, j \in DOMAIN Items :
            Items[i].productId = Items[j].productId => i = j
    /\ \A i \in DOMAIN Items :
            /\ Items[i].quantity >= 1 * Scale
            /\ IsInteger(Items[i].quantity)
            /\ Items[i].price > 0

\* C23 witness: two addItem requests for the same product are in flight
\* together: the controller of one has called the engine, which incremented
\* the line, and has not answered yet, while the other waits for its turn
C23_Witness ==
    \E r, q \in Requests :
        /\ http[r].route = "addItem" /\ http[r].state = "called"
        /\ http[q].route = "addItem" /\ http[q].state = "parsed"
        /\ http[q].body = http[r].body
        /\ Len(cart) = 1
        /\ Items[1].quantity = 2 * Scale

\* C24: at the HTTP boundary every failure is answered with
\* {success: false, error: {message, statusCode}} and the response status
\* is error.statusCode: ValidationError and BadRequestError give 400 and
\* NotFoundError 404, with the error's own message; any other error gives
\* 500 and the message "Internal server error", never its own message.
C24_FailuresReported ==
    \A r \in Requests :
        (Answered(r) /\ ~Succeeded(r)) =>
            LET o == http[r].outcome
                s == http[r].response
            IN  /\ ~s.success
                /\ s.data = NoData
                /\ s.message = NoMessage
                /\ s.status = s.error.statusCode
                /\ s.status \in {400, 404, 500}
                /\ ~Failed(r) => http[r].route = "unknown" /\ s.status = 404
                /\ o.error \in {"ValidationError", "BadRequestError"}
                    => s.status = 400 /\ s.error.message = o.message
                /\ o.error = "NotFoundError"
                    => s.status = 404 /\ s.error.message = o.message
                /\ (Failed(r) /\ o.error \notin {"ValidationError",
                                                  "BadRequestError",
                                                  "NotFoundError"})
                    => /\ s.status = 500
                       /\ s.error.message = "Internal server error"
                       /\ s.error.message # o.message

\* C24 witness: one request was refused by the engine with NotFoundError
\* and another failed before its controller with an error that is no
\* AppError, and both are answered
C24_Witness ==
    \E r, q \in Requests :
        /\ Answered(r) /\ http[r].outcome.error = "NotFoundError"
        /\ Answered(q) /\ http[q].outcome.error = "SyntaxError"

\* C25: at the HTTP boundary a successful addItem is answered with status
\* 201 and every other successful operation with 200, with success = true
\* and the snapshot or order summary the engine returned as data; a
\* response with success = true is sent only if the operation succeeded.
C25_SuccessesReported ==
    \A r \in Requests :
        Answered(r) =>
            LET s == http[r].response
            IN  /\ s.success <=> Succeeded(r)
                /\ Succeeded(r) =>
                    /\ s.status = IF http[r].route = "addItem" THEN 201
                                  ELSE 200
                    /\ s.data = http[r].outcome.data
                    /\ s.error = NoError

\* C25 witness: a successful addItem and a successful checkout are both
\* answered
C25_Witness ==
    \E r, q \in Requests :
        /\ Answered(r) /\ http[r].route = "addItem" /\ Succeeded(r)
        /\ Answered(q) /\ http[q].route = "checkout" /\ Succeeded(q)
        /\ http[q].response.data.orderId # NoOrderId

\* the controller of request r calls checkout in this step
CheckoutRuns(r) ==
    /\ http[r].route = "checkout"
    /\ http[r].state = "parsed"
    /\ http'[r].state \in {"called", "rejected"}

\* C30: no cart contents are checked out twice.  A checkout with no
\* successful addItem since the previous successful checkout (or clearCart)
\* throws BadRequestError and leaves the cart as it was, whether the two
\* checkouts come one after the other or from requests in flight together;
\* and every item of an order summary was added after the previous
\* successful checkout or clearCart.
C30_NothingCheckedOutTwice ==
    [][\A r \in Requests :
        CheckoutRuns(r) =>
            /\ ~since.added
                => /\ ret'.kind = "error"
                   /\ ret'.error = "BadRequestError"
                   /\ cart' = cart
            /\ ret'.kind = "order"
                => /\ since.added
                   /\ Range(ret'.items) \subseteq since.pushed
                   /\ ret'.items # <<>>]_vars

\* C30 witness: two checkout requests were in flight together; one got the
\* order summary and the other the BadRequestError
C30_Witness ==
    \E r, q \in Requests :
        /\ http[r].route = "checkout" /\ Succeeded(r)
        /\ http[q].route = "checkout"
        /\ http[q].outcome.error = "BadRequestError"
        /\ Answered(q)
        /\ http[q].response.status = 400

\* C31: in every reachable state a cart that is not empty has a snapshot
\* total > 0 and an itemCount that is at least the number of its line items,
\* which is at least 1; the total is 0 only if the cart is empty.  The code
\* accepts a price of a tenth of a cent, whose total rounds to 0.
C31_NonEmptyCartHasTotal ==
    Len(cart) > 0 =>
        /\ calculateTotal(cart, heap) > 0
        /\ calculateItemCount(cart, heap) >= Len(cart) * Scale
        /\ Len(cart) >= 1

\* C32: for a productId p that is not in the cart, a valid addItem for p
\* followed at once by removeItem(p) restores the cart to what it was before
\* the addItem: the same line items, with the same values, in the same
\* order.
C32_AddThenRemoveRestores ==
    (/\ call.op = "removeItem"
     /\ past.call.op = "addItem"
     /\ past.succeeded
     /\ past.call.productId = call.productId
     /\ ~InItems(past.priorItems, call.productId.n))
    => /\ ret.kind = "cart"
       /\ Items = past.priorItems
       /\ cart = past.priorCart

\* C32 witness: product 1 was added to a cart that held product 2 only and
\* removed again by the next call
C32_Witness ==
    /\ call.op = "removeItem"
    /\ ret.kind = "cart"
    /\ call.productId.n = 1 * Scale
    /\ past.call.op = "addItem"
    /\ past.succeeded
    /\ past.call.productId = call.productId
    /\ Len(past.priorItems) = 1
    /\ past.priorItems[1].productId = 2 * Scale
    /\ Len(past.items) = 2

\* C33: a valid addItem for a productId p that removeItem has taken out of
\* the cart (and that is not in the cart) appends a line item at the end
\* whose name (trimmed), price and quantity are those of this call; nothing
\* of the removed item is kept, and the other items stay as they are.
C33_ReAddIsFresh ==
    [][(/\ call'.op = "addItem"
        /\ ret'.kind = "cart"
        /\ ~InItems(Items, call'.productId.n)
        /\ \E x \in past.removed : x.productId = call'.productId.n)
       => ItemsAfter =
            Append(Items,
                   [productId |-> call'.productId.n,
                    name |-> trim(call'.name.s),
                    price |-> call'.price.n,
                    quantity |-> call'.quantity.n])]_vars

\* C33 witness: product 1 was removed and has been added again, behind
\* product 2, with another name, price and quantity than the removed item had
C33_Witness ==
    /\ call.op = "addItem"
    /\ ret.kind = "cart"
    /\ ~InItems(past.items, call.productId.n)
    /\ Len(cart) = 2
    /\ Items[2].productId = call.productId.n
    /\ \E x \in past.removed :
            /\ x.productId = call.productId.n
            /\ x.name # Items[2].name
            /\ x.price # Items[2].price
            /\ x.quantity # Items[2].quantity

\* the quantity of the line item of productId in the items its, 0 when there
\* is none
QuantityOf(its, productId) ==
    IF InItems(its, productId) THEN its[PlaceOf(its, productId)].quantity
    ELSE 0

\* C34: updateItem is idempotent: the same updateItem made twice in a row
\* leaves the cart and returns the snapshot (or throws the error) of the
\* first; addItem is not: a second identical addItem that succeeds adds its
\* quantity to the line item once more.
C34_UpdateIdempotentAddNot ==
    [][/\ (call.op = "updateItem" /\ call' = call)
            => /\ ret' = ret
               /\ cart' = cart
               /\ ItemsAfter = Items
       /\ (call.op = "addItem" /\ ret.kind = "cart" /\ call' = call)
            => /\ ret'.kind = "cart"
               /\ cart' = cart
               /\ QuantityOf(ItemsAfter, call.productId.n)
                    = QuantityOf(Items, call.productId.n) + call.quantity.n
               /\ ret'.itemCount = ret.itemCount + call.quantity.n]_vars

\* C34 witness: an updateItem of quantity and price has succeeded twice in a
\* row on an item that had another quantity and price before the first
C34_Witness ==
    /\ call.op = "updateItem"
    /\ ret.kind = "cart"
    /\ past.call = call
    /\ past.succeeded
    /\ Items = past.items
    /\ InItems(past.priorItems, call.productId.n)
    /\ QuantityOf(past.priorItems, call.productId.n) # call.quantity.n
    /\ QuantityOf(Items, call.productId.n) = call.quantity.n

\* C35: addItem validates name and price also when the productId is in the
\* cart already, where they would not be used: an addItem for a productId of
\* the cart with a valid quantity and a name that is empty (or blank) or a
\* price <= 0 throws ValidationError and leaves the quantity as it was.
C35_ExistingItemStillValidated ==
    [][(/\ call'.op = "addItem"
        /\ call'.productId.t = "number"
        /\ InItems(Items, call'.productId.n)
        /\ IsValidQuantity(call'.quantity)
        /\ \/ call'.name.t = "string" /\ trim(call'.name.s) = <<>>
           \/ call'.price.t = "number" /\ LessEq(call'.price.n, 0))
       => /\ ret'.kind = "error"
          /\ ret'.error = "ValidationError"
          /\ cart' = cart
          /\ ItemsAfter = Items]_vars

\* C35 witness: an addItem for the productId of the cart's item, with a valid
\* name and quantity and the price 0, has been refused and the item has
\* the quantity it had
C35_Witness ==
    /\ call.op = "addItem"
    /\ Len(cart) = 1
    /\ call.productId = Num(Items[1].productId)
    /\ IsValidName(call.name)
    /\ IsValidQuantity(call.quantity)
    /\ call.price = Num(0)
    /\ ret.kind = "error"
    /\ ret.error = "ValidationError"
    /\ ret.message = "price must be greater than 0"
    /\ Items[1] = MilkItem

\* C36: every request to a cart endpoint eventually receives exactly one
\* response.  No request is answered twice; an answered request got one
\* response; a request whose engine call succeeded got a success response
\* and no error response; one whose engine call threw got no success
\* response and one error response from errorHandler; and every request
\* that has arrived is answered in the end.
C36_OneResponseEach ==
    /\ [](\A r \in Requests :
            /\ http[r].successes + http[r].failures <= 1
            /\ Answered(r) <=> http[r].successes + http[r].failures = 1
            /\ Succeeded(r) => http[r].failures = 0
            /\ Failed(r) => http[r].successes = 0
            /\ http[r].successes = 1 => http[r].response.success
            /\ http[r].failures = 1 => ~http[r].response.success)
    /\ \A r \in Requests : (http[r].state = "received") ~> Answered(r)

\* C36 witness: of two requests in flight together one succeeded and has its
\* success response, the other was refused by the engine and has its error
\* response from errorHandler
C36_Witness ==
    \E r, q \in Requests :
        /\ Answered(r) /\ Succeeded(r)
        /\ http[r].successes = 1 /\ http[r].failures = 0
        /\ Answered(q) /\ Failed(q) /\ IsAppError(http[q].outcome)
        /\ http[q].successes = 0 /\ http[q].failures = 1

====
